---- MODULE Spec2Model ----
(***************************************************************************)
(* The asynchronous loop of libprocess (process/loop.hpp): the entry point *)
(* loop(pid, iterate, body), the driver internal::run, its two onAny       *)
(* wake-up handlers and the root discard propagator, executed step by step *)
(* on the actor `pid` while the caller of loop() and the threads that      *)
(* settle the per-iteration futures run concurrently.                      *)
(***************************************************************************)
EXTENDS Integers, Sequences, FiniteSets, TLC

\* Iterations the user callables allow: the body call number MaxIter never
\* yields ready-true.
MaxIter == 3

\* Failure reasons.
Reasons == {"boom", "gone"}

VARIABLES
  callables,      \* which iterate/body were passed to loop(): "any" or "S1"
  c,              \* the counter shared by the callables of scenario S1
  callerPc,       \* position of the caller inside loop(pid, iterate, body)
  outer,          \* loop->promise and its future
  future,         \* loop->future: index into iterFut (0: default-constructed)
  condition,      \* loop->condition: index into bodyFut (0: default-constructed)
  iterFut,        \* the futures returned by iterate(), by call number
  bodyFut,        \* the futures returned by body(), by call number
  bodyArgs,       \* the argument of each body call
  inbox,          \* FIFO mailbox of the actor `pid`
  pc,             \* position of the actor inside the handler it is running
  ctx,            \* execution context of the handler the actor is running
  calls,          \* log of the iterate/body invocations and their contexts
  nSettle,        \* calls of promise.set/fail/discard made by the driver
  onDiscardCalls, \* onDiscard subscriptions made on the returned future
  depth,          \* active invocations of internal::run on the stack of pid
  proc,           \* the actor behind pid: "external" (supplied by the caller)
                  \* or spawned, terminated, deleted by loop(iterate, body)
  cleanup         \* the deferred cleanup of loop(iterate, body)

vars == <<callables, c, callerPc, outer, future, condition, iterFut, bodyFut,
          bodyArgs, inbox, pc, ctx, calls, nSettle, onDiscardCalls,
          depth, proc, cleanup>>

----------------------------------------------------------------------------
\* Future<T> / Promise<T> of the runtime.

PendingFuture(v) ==
  [state |-> "PENDING", value |-> v, reason |-> "", discard |-> FALSE,
   onAny |-> 0, subs |-> 0]

ReadyFuture(v) == [PendingFuture(v) EXCEPT !.state = "READY"]

FailedFuture(v, r) == [PendingFuture(v) EXCEPT !.state = "FAILED", !.reason = r]

DiscardedFuture(v) == [PendingFuture(v) EXCEPT !.state = "DISCARDED"]

\* Future::discard(): records the request on a pending future only.
Discard(f) ==
  IF f.state = "PENDING" /\ ~f.discard THEN [f EXCEPT !.discard = TRUE] ELSE f

\* Promise::set / fail / discard: act on a pending future only.
PromiseSet(p) ==
  IF p.state = "PENDING"
    THEN [p EXCEPT !.state = "READY", !.onDiscard = 0, !.onAny = 0]
    ELSE p

PromiseFail(p, r) ==
  IF p.state = "PENDING"
    THEN [p EXCEPT !.state = "FAILED", !.reason = r, !.onDiscard = 0, !.onAny = 0]
    ELSE p

PromiseDiscard(p) ==
  IF p.state = "PENDING"
    THEN [p EXCEPT !.state = "DISCARDED", !.onDiscard = 0, !.onAny = 0]
    ELSE p

\* The context in which a callable wrapped by defer(pid, f) runs f when it is
\* invoked from context `invoker`: it posts f to pid.
Defer(p, invoker) == p

\* The context in which dispatch(pid, f) runs f.
Dispatch(p, invoker) == p

\* Callbacks handed to onAny/onDiscard as they are, without defer: each runs
\* in the context of whoever invokes it.
CallbacksNotDeferred(n, h, invoker) ==
  [i \in 1..n |-> [h |-> h, ctx |-> invoker]]

\* The n callbacks of handler h the loop has subscribed to a future, each
\* wrapped as defer(loop->pid, ...), when invoked from context `invoker`.
Callbacks(n, h, invoker) ==
  [i \in 1..n |-> [h |-> h, ctx |-> Defer("pid", invoker)]]

nIterate == Cardinality(DOMAIN iterFut) - 1
nBody == Cardinality(DOMAIN bodyFut) - 1

Extend(f, rec) ==
  LET n == Cardinality(DOMAIN f) - 1
  IN  [k \in 0..(n + 1) |-> IF k <= n THEN f[k] ELSE rec]

----------------------------------------------------------------------------
\* The user callables.

\* What call number k of iterate() may return. The driver only passes the
\* value of a ready future on to body: the k-th future carries the value k,
\* which tells it from every other future and from a future with no value.
\* In the counting scenarios the future carries the counter c read by the
\* call: ready at once in S1, set by another actor later in S2 (the pending
\* future records the value its promise will be set to).
IterateResults(k) ==
  CASE callables = "S1" -> {ReadyFuture(c)}
    [] callables = "S2" -> {PendingFuture(c)}
    [] callables = "settled" -> {ReadyFuture(k)}
                                \cup {FailedFuture(0, r) : r \in Reasons}
                                \cup {DiscardedFuture(0)}
    [] OTHER -> {ReadyFuture(k)}
                \cup {FailedFuture(0, r) : r \in Reasons}
                \cup {DiscardedFuture(0), PendingFuture(0)}

\* The conditions body call number k may yield.
Conditions(k) == IF k < MaxIter THEN BOOLEAN ELSE {FALSE}

\* What call number k of body(v) may return.
BodyResults(k, v) ==
  CASE callables = "S1" -> {ReadyFuture(v < 5)}
    [] callables = "S2" -> {PendingFuture(v < 5)}
    [] callables = "settled" -> {ReadyFuture(b) : b \in Conditions(k)}
                                \cup {FailedFuture(FALSE, r) : r \in Reasons}
                                \cup {DiscardedFuture(FALSE)}
    [] OTHER -> {ReadyFuture(b) : b \in Conditions(k)}
                \cup {FailedFuture(FALSE, r) : r \in Reasons}
                \cup {DiscardedFuture(FALSE), PendingFuture(FALSE)}

\* The terminal states the pending future of iterate call k may later reach.
IterateOutcomes(k) ==
  IF callables = "S2"
    THEN {ReadyFuture(iterFut[k].value)}
    ELSE {ReadyFuture(k)}
         \cup {FailedFuture(0, r) : r \in Reasons}
         \cup {DiscardedFuture(0)}

\* The terminal states the pending condition of body call k may later reach.
BodyOutcomes(k) ==
  IF callables = "S2"
    THEN {ReadyFuture(bodyFut[k].value)}
    ELSE {ReadyFuture(b) : b \in Conditions(k)}
         \cup {FailedFuture(FALSE, r) : r \in Reasons}
         \cup {DiscardedFuture(FALSE)}

----------------------------------------------------------------------------

InitFor(cs) ==
  /\ callables = cs
  /\ c = 0
  /\ callerPc = "dispatch"
  /\ outer = [state |-> "PENDING", reason |-> "", discard |-> FALSE, onDiscard |-> 0,
              onAny |-> 0]
  /\ future = 0
  /\ condition = 0
  /\ iterFut = [k \in {0} |-> PendingFuture(0)]
  /\ bodyFut = [k \in {0} |-> PendingFuture(FALSE)]
  /\ bodyArgs = <<>>
  /\ inbox = <<>>
  /\ pc = "idle"
  /\ ctx = "none"
  /\ calls = <<>>
  /\ nSettle = 0
  /\ onDiscardCalls = 0
  /\ depth = 0
  /\ cleanup = [pc |-> "none", ctx |-> "none", invoker |-> "none", runs |-> 0]

\* loop(pid, iterate, body) on an actor supplied by the caller.
Init == InitFor("any") /\ proc = "external"

InitS1 == InitFor("S1") /\ proc = "external"

InitS2 == InitFor("S2") /\ proc = "external"

\* The callables return only futures that are already settled: ready, failed
\* or discarded.
InitSettled == InitFor("settled") /\ proc = "external"

\* loop(iterate, body): `new ProcessBase()` and spawn(process) have been
\* executed, loop(process->self(), iterate, body) is about to be.
InitWrapper == InitFor("any") /\ proc = "spawned"

----------------------------------------------------------------------------
\* loop(pid, iterate, body), executed by the caller.

\* dispatch(pid, [=]() { ... }): post the bootstrap step to pid.
LoopDispatch ==
  /\ callerPc = "dispatch"
  /\ inbox' = Append(inbox, [h |-> "bootstrap", ctx |-> Dispatch("pid", "caller")])
  /\ callerPc' = "onDiscard"
  /\ UNCHANGED <<callables, c, outer, future, condition, iterFut, bodyFut,
                 bodyArgs, pc, ctx, calls, nSettle, onDiscardCalls, depth,
                 proc, cleanup>>

\* A root propagator handed to onDiscard without defer: it runs in the context
\* of whoever requests the discard.
PropagateCallbacksInline(n, invoker) ==
  [i \in 1..n |-> [h |-> "propagate", ctx |-> invoker]]

\* The n root propagators subscribed with onDiscard(defer(pid, ...)), when the
\* discard is requested from context `invoker`.
PropagateCallbacks(n, invoker) == Callbacks(n, "propagate", invoker)

\* loop->promise.future().onDiscard(defer(pid, ...)); return the future.
LoopOnDiscard ==
  /\ callerPc = "onDiscard"
  /\ onDiscardCalls' = onDiscardCalls + 1
  /\ outer' = IF outer.state = "PENDING"
                THEN [outer EXCEPT !.onDiscard = @ + 1]
                ELSE outer
  /\ callerPc' = IF proc = "external" THEN "returned" ELSE "onAny"
  /\ UNCHANGED <<callables, c, future, condition, iterFut, bodyFut, bodyArgs,
                 inbox, pc, ctx, calls, nSettle, depth, proc, cleanup>>

\* The caller requests discard on the returned future: Future::discard()
\* records the request and invokes the onDiscard callbacks.
CallerDiscard ==
  /\ callerPc = "returned"
  /\ outer.state = "PENDING"
  /\ ~outer.discard
  /\ outer' = [outer EXCEPT !.discard = TRUE, !.onDiscard = 0]
  /\ inbox' = inbox \o PropagateCallbacks(outer.onDiscard, "caller")
  /\ UNCHANGED <<callables, c, callerPc, future, condition, iterFut, bodyFut,
                 bodyArgs, pc, ctx, calls, nSettle, onDiscardCalls, depth,
                 proc, cleanup>>

----------------------------------------------------------------------------
\* loop(iterate, body): the cleanup of the spawned actor.

\* A cleanup handed to onAny as a plain callback: it runs in the context of
\* whoever settles the future.
CleanupContextInline(invoker) == invoker

\* The context in which the cleanup runs: defer([=](...) {...}) without a pid
\* is built in the context of the caller of loop(iterate, body) and posts the
\* cleanup back to it, whoever invokes the callback.
CleanupContext(invoker) == Defer("caller", invoker)

\* The cleanup as posted by the onAny callback of the returned future when
\* invoked from context `invoker`.
PostCleanup(invoker) ==
  [pc |-> "posted", ctx |-> CleanupContext(invoker), invoker |-> invoker,
   runs |-> cleanup.runs + 1]

\* The driver has just called promise.set/fail/discard from context
\* `invoker`: a promise it settled invokes the onAny callbacks of its future.
OuterSettled(invoker) ==
  IF outer.state = "PENDING" /\ outer'.state # "PENDING" /\ outer.onAny > 0
    THEN PostCleanup(invoker)
    ELSE cleanup

\* A wrapper that runs the cleanup when it is built instead of subscribing it
\* to the returned future.
WrapperOnAnyEager ==
  /\ callerPc = "onAny"
  /\ outer' = outer
  /\ cleanup' = PostCleanup("caller")
  /\ callerPc' = "returned"
  /\ UNCHANGED <<callables, c, future, condition, iterFut, bodyFut, bodyArgs,
                 inbox, pc, ctx, calls, nSettle, onDiscardCalls, depth, proc>>

\* .onAny(defer(...)) on the future returned by loop(pid, iterate, body).
WrapperOnAny ==
  /\ callerPc = "onAny"
  /\ IF outer.state = "PENDING"
       THEN /\ outer' = [outer EXCEPT !.onAny = @ + 1]
            /\ cleanup' = cleanup
       ELSE /\ outer' = outer
            /\ cleanup' = PostCleanup("caller")
  /\ callerPc' = "returned"
  /\ UNCHANGED <<callables, c, future, condition, iterFut, bodyFut, bodyArgs,
                 inbox, pc, ctx, calls, nSettle, onDiscardCalls, depth, proc>>

\* The cleanup: terminate(process) injects a terminate event at the front of
\* the mailbox of the spawned actor.
CleanupTerminate ==
  /\ cleanup.pc = "posted"
  /\ inbox' = <<[h |-> "terminate", ctx |-> "pid"]>> \o inbox
  /\ cleanup' = [cleanup EXCEPT !.pc = "wait"]
  /\ UNCHANGED <<callables, c, callerPc, outer, future, condition, iterFut,
                 bodyFut, bodyArgs, pc, ctx, calls, nSettle, onDiscardCalls,
                 depth, proc>>

\* The spawned actor handles the terminate event between two handlers and
\* drops the rest of its mailbox; it cannot while one of its own handlers is
\* blocked in wait(process).
ProcessTerminate ==
  /\ proc = "spawned"
  /\ pc = "idle" /\ inbox # <<>> /\ Head(inbox).h = "terminate"
  /\ ~(cleanup.pc = "wait" /\ cleanup.ctx = "pid")
  /\ proc' = "terminated"
  /\ inbox' = <<>>
  /\ UNCHANGED <<callables, c, callerPc, outer, future, condition, iterFut,
                 bodyFut, bodyArgs, pc, ctx, calls, nSettle, onDiscardCalls,
                 depth, cleanup>>

\* The cleanup: wait(process) returns once the actor has terminated.
CleanupWait ==
  /\ cleanup.pc = "wait"
  /\ proc = "terminated"
  /\ cleanup' = [cleanup EXCEPT !.pc = "delete"]
  /\ UNCHANGED <<callables, c, callerPc, outer, future, condition, iterFut,
                 bodyFut, bodyArgs, inbox, pc, ctx, calls, nSettle,
                 onDiscardCalls, depth, proc>>

\* The cleanup: delete process.
CleanupDelete ==
  /\ cleanup.pc = "delete"
  /\ proc' = "deleted"
  /\ cleanup' = [cleanup EXCEPT !.pc = "done"]
  /\ UNCHANGED <<callables, c, callerPc, outer, future, condition, iterFut,
                 bodyFut, bodyArgs, inbox, pc, ctx, calls, nSettle,
                 onDiscardCalls, depth>>

----------------------------------------------------------------------------
\* Steps of the actor pid.

\* The actor is alive, between handlers, and message h is first in its
\* mailbox.
Receives(h) ==
  /\ proc \in {"external", "spawned"}
  /\ pc = "idle" /\ inbox # <<>> /\ Head(inbox).h = h

\* A driver that subscribes an onDiscard callback for every new future.
CallIterateOnDiscard(cx) ==
  /\ \E res \in IterateResults(nIterate + 1) : iterFut' = Extend(iterFut, res)
  /\ future' = nIterate + 1
  /\ calls' = Append(calls, [fn |-> "iterate", ctx |-> cx,
                             hasDiscard |-> outer.discard])
  /\ onDiscardCalls' = onDiscardCalls + 1

\* loop->future = loop->iterate(), invoked in context cx. No onDiscard
\* callback is added for the new future.
CallIterate(cx) ==
  /\ \E res \in IterateResults(nIterate + 1) : iterFut' = Extend(iterFut, res)
  /\ future' = nIterate + 1
  /\ calls' = Append(calls, [fn |-> "iterate", ctx |-> cx,
                             hasDiscard |-> outer.discard])
  /\ onDiscardCalls' = onDiscardCalls

\* A driver that leaves the discard of a new future to the root propagator.
DiscardNewFutureSkipped == iterFut' = iterFut

\* if (loop->promise.future().hasDiscard()) { loop->future.discard(); }
DiscardNewFuture ==
  iterFut' = IF outer.discard
               THEN [iterFut EXCEPT ![future] = Discard(@)]
               ELSE iterFut

\* The bootstrap step: loop->future = loop->iterate().
Bootstrap ==
  /\ Receives("bootstrap")
  /\ inbox' = Tail(inbox)
  /\ ctx' = Head(inbox).ctx
  /\ CallIterate(Head(inbox).ctx)
  /\ pc' = "boot_discard"
  /\ UNCHANGED <<callables, c, callerPc, outer, condition, bodyFut, bodyArgs,
                 nSettle, depth, proc, cleanup>>

\* The bootstrap step: the hasDiscard check, then internal::run(loop).
BootstrapDiscard ==
  /\ pc = "boot_discard"
  /\ DiscardNewFuture
  /\ pc' = "run_while"
  /\ depth' = depth + 1
  /\ UNCHANGED <<callables, c, callerPc, outer, future, condition, bodyFut,
                 bodyArgs, inbox, ctx, calls, nSettle, onDiscardCalls, proc,
                 cleanup>>

\* A driver that calls body without checking that loop->future is ready.
RunWhileNoReady ==
  /\ pc = "run_while"
  /\ pc' = "run_body"
  /\ UNCHANGED <<callables, c, callerPc, outer, future, condition, iterFut,
                 bodyFut, bodyArgs, inbox, ctx, calls, nSettle, onDiscardCalls,
                 depth, proc, cleanup>>

\* while (loop->future.isReady())
RunWhile ==
  /\ pc = "run_while"
  /\ pc' = IF iterFut[future].state = "READY" THEN "run_body" ELSE "run_onAnyFuture"
  /\ UNCHANGED <<callables, c, callerPc, outer, future, condition, iterFut,
                 bodyFut, bodyArgs, inbox, ctx, calls, nSettle, onDiscardCalls,
                 depth, proc, cleanup>>

\* loop->condition = loop->body(loop->future.get())
RunBody ==
  /\ pc = "run_body"
  /\ \E res \in BodyResults(nBody + 1, iterFut[future].value) :
       bodyFut' = Extend(bodyFut, res)
  /\ condition' = nBody + 1
  /\ bodyArgs' = Append(bodyArgs, iterFut[future].value)
  /\ calls' = Append(calls, [fn |-> "body", ctx |-> ctx,
                             hasDiscard |-> outer.discard])
  /\ c' = IF callables \in {"S1", "S2"} THEN c + 1 ELSE c
  /\ pc' = "run_bodyDiscard"
  /\ UNCHANGED <<callables, callerPc, outer, future, iterFut, inbox, ctx,
                 nSettle, onDiscardCalls, depth, proc, cleanup>>

\* A driver that gives the loop up as discarded when it finds a discard
\* recorded on the returned future.
RunBodyDiscardStops ==
  /\ pc = "run_bodyDiscard"
  /\ bodyFut' = bodyFut
  /\ IF outer.discard
       THEN /\ outer' = PromiseDiscard(outer)
            /\ nSettle' = nSettle + 1
            /\ pc' = "idle"
            /\ depth' = depth - 1
       ELSE /\ pc' = "run_condition"
            /\ UNCHANGED <<outer, nSettle, depth>>
  /\ cleanup' = OuterSettled(ctx)
  /\ UNCHANGED <<callables, c, callerPc, future, condition, iterFut,
                 bodyArgs, inbox, ctx, calls, onDiscardCalls, proc>>

\* if (loop->promise.future().hasDiscard()) { loop->condition.discard(); }
RunBodyDiscard ==
  /\ pc = "run_bodyDiscard"
  /\ bodyFut' = IF outer.discard
                  THEN [bodyFut EXCEPT ![condition] = Discard(@)]
                  ELSE bodyFut
  /\ pc' = "run_condition"
  /\ UNCHANGED <<callables, c, callerPc, outer, future, condition, iterFut,
                 bodyArgs, inbox, ctx, calls, nSettle, onDiscardCalls, depth,
                 proc, cleanup>>

\* A driver that leaves the drain on any ready condition, true or false.
RunConditionNoGet ==
  /\ pc = "run_condition"
  /\ pc' = IF bodyFut[condition].state = "READY"
             THEN "run_set"
             ELSE "run_onAnyCondition"
  /\ UNCHANGED <<callables, c, callerPc, outer, future, condition, iterFut,
                 bodyFut, bodyArgs, inbox, ctx, calls, nSettle, onDiscardCalls,
                 depth, proc, cleanup>>

\* if (loop->condition.isReady()) { if (loop->condition.get()) ... else ... }
\* else ...
RunCondition ==
  /\ pc = "run_condition"
  /\ pc' = IF bodyFut[condition].state = "READY"
             THEN IF bodyFut[condition].value THEN "run_iterate" ELSE "run_set"
             ELSE "run_onAnyCondition"
  /\ UNCHANGED <<callables, c, callerPc, outer, future, condition, iterFut,
                 bodyFut, bodyArgs, inbox, ctx, calls, nSettle, onDiscardCalls,
                 depth, proc, cleanup>>

\* loop->future = loop->iterate() inside the drain.
RunIterate ==
  /\ pc = "run_iterate"
  /\ CallIterate(ctx)
  /\ pc' = "run_iterateDiscard"
  /\ UNCHANGED <<callables, c, callerPc, outer, condition, bodyFut, bodyArgs,
                 inbox, ctx, nSettle, depth, proc, cleanup>>

\* A driver that re-enters run(loop) for the next iteration instead of
\* continuing its while loop.
RunIterateDiscardRecursive ==
  /\ pc = "run_iterateDiscard"
  /\ DiscardNewFuture
  /\ pc' = "run_while"
  /\ depth' = depth + 1
  /\ UNCHANGED <<callables, c, callerPc, outer, future, condition, bodyFut,
                 bodyArgs, inbox, ctx, calls, nSettle, onDiscardCalls, proc,
                 cleanup>>

\* A driver that, instead of continuing its while loop, posts the next
\* iteration to pid as a deferred continuation and returns.
RunIterateDiscardYield ==
  /\ pc = "run_iterateDiscard"
  /\ DiscardNewFuture
  /\ inbox' = inbox \o Callbacks(1, "futureAny", ctx)
  /\ pc' = "idle"
  /\ depth' = depth - 1
  /\ UNCHANGED <<callables, c, callerPc, outer, future, condition, bodyFut,
                 bodyArgs, ctx, calls, nSettle, onDiscardCalls, proc,
                 cleanup>>

\* The hasDiscard check on the new future, then `continue`.
RunIterateDiscard ==
  /\ pc = "run_iterateDiscard"
  /\ DiscardNewFuture
  /\ pc' = "run_while"
  /\ UNCHANGED <<callables, c, callerPc, outer, future, condition, bodyFut,
                 bodyArgs, inbox, ctx, calls, nSettle, onDiscardCalls, depth,
                 proc, cleanup>>

\* A driver that keeps draining after promise.set (the `return` is missing).
RunSetNoReturn ==
  /\ pc = "run_set"
  /\ outer' = PromiseSet(outer)
  /\ nSettle' = nSettle + 1
  /\ pc' = "run_while"
  /\ cleanup' = OuterSettled(ctx)
  /\ UNCHANGED <<callables, c, callerPc, future, condition, iterFut, bodyFut,
                 bodyArgs, inbox, ctx, calls, onDiscardCalls, depth, proc>>

\* loop->promise.set(Nothing()); return;
RunSet ==
  /\ pc = "run_set"
  /\ outer' = PromiseSet(outer)
  /\ nSettle' = nSettle + 1
  /\ pc' = "idle"
  /\ depth' = depth - 1
  /\ cleanup' = OuterSettled(ctx)
  /\ UNCHANGED <<callables, c, callerPc, future, condition, iterFut, bodyFut,
                 bodyArgs, inbox, ctx, calls, onDiscardCalls, proc>>

\* A driver that leaves the while loop after subscribing to the condition
\* (`break` for `return`) and so reaches the subscription to loop->future.
RunOnAnyConditionBreak ==
  /\ pc = "run_onAnyCondition"
  /\ IF bodyFut[condition].state = "PENDING"
       THEN /\ bodyFut' = [bodyFut EXCEPT ![condition].onAny = @ + 1,
                                          ![condition].subs = @ + 1]
            /\ inbox' = inbox
       ELSE /\ bodyFut' = [bodyFut EXCEPT ![condition].subs = @ + 1]
            /\ inbox' = inbox \o Callbacks(1, "conditionAny", ctx)
  /\ pc' = "run_onAnyFuture"
  /\ depth' = depth
  /\ UNCHANGED <<callables, c, callerPc, outer, future, condition, iterFut,
                 bodyArgs, ctx, calls, nSettle, onDiscardCalls, proc,
                 cleanup>>

\* loop->condition.onAny(defer(loop->pid, ...)); return;
\* onAny invokes the callback at once when the future is no longer pending.
RunOnAnyCondition ==
  /\ pc = "run_onAnyCondition"
  /\ IF bodyFut[condition].state = "PENDING"
       THEN /\ bodyFut' = [bodyFut EXCEPT ![condition].onAny = @ + 1,
                                          ![condition].subs = @ + 1]
            /\ inbox' = inbox
       ELSE /\ bodyFut' = [bodyFut EXCEPT ![condition].subs = @ + 1]
            /\ inbox' = inbox \o Callbacks(1, "conditionAny", ctx)
  /\ pc' = "idle"
  /\ depth' = depth - 1
  /\ UNCHANGED <<callables, c, callerPc, outer, future, condition, iterFut,
                 bodyArgs, ctx, calls, nSettle, onDiscardCalls, proc,
                 cleanup>>

\* A driver whose subscription to loop->future is lost when the future is no
\* longer pending: the callback is never invoked.
RunOnAnyFutureLost ==
  /\ pc = "run_onAnyFuture"
  /\ IF iterFut[future].state = "PENDING"
       THEN iterFut' = [iterFut EXCEPT ![future].onAny = @ + 1,
                                       ![future].subs = @ + 1]
       ELSE iterFut' = [iterFut EXCEPT ![future].subs = @ + 1]
  /\ inbox' = inbox
  /\ pc' = "idle"
  /\ depth' = depth - 1
  /\ UNCHANGED <<callables, c, callerPc, outer, future, condition, bodyFut,
                 bodyArgs, ctx, calls, nSettle, onDiscardCalls, proc,
                 cleanup>>

\* loop->future.onAny(defer(loop->pid, ...)) at the end of run.
RunOnAnyFuture ==
  /\ pc = "run_onAnyFuture"
  /\ IF iterFut[future].state = "PENDING"
       THEN /\ iterFut' = [iterFut EXCEPT ![future].onAny = @ + 1,
                                          ![future].subs = @ + 1]
            /\ inbox' = inbox
       ELSE /\ iterFut' = [iterFut EXCEPT ![future].subs = @ + 1]
            /\ inbox' = inbox \o Callbacks(1, "futureAny", ctx)
  /\ pc' = "idle"
  /\ depth' = depth - 1
  /\ UNCHANGED <<callables, c, callerPc, outer, future, condition, bodyFut,
                 bodyArgs, ctx, calls, nSettle, onDiscardCalls, proc,
                 cleanup>>

\* A condition handler that continues on false and settles on true.
ConditionAnyInverted ==
  /\ Receives("conditionAny")
  /\ inbox' = Tail(inbox)
  /\ ctx' = Head(inbox).ctx
  /\ LET cond == bodyFut[condition] IN
       CASE cond.state = "READY" /\ ~cond.value ->
              /\ pc' = "cond_iterate"
              /\ UNCHANGED <<outer, nSettle>>
         [] cond.state = "READY" /\ cond.value ->
              /\ outer' = PromiseSet(outer)
              /\ nSettle' = nSettle + 1
              /\ pc' = "idle"
         [] cond.state = "FAILED" ->
              /\ outer' = PromiseFail(outer, cond.reason)
              /\ nSettle' = nSettle + 1
              /\ pc' = "idle"
         [] cond.state = "DISCARDED" ->
              /\ outer' = PromiseDiscard(outer)
              /\ nSettle' = nSettle + 1
              /\ pc' = "idle"
         [] OTHER ->
              /\ pc' = "idle"
              /\ UNCHANGED <<outer, nSettle>>
  /\ cleanup' = OuterSettled(Head(inbox).ctx)
  /\ UNCHANGED <<callables, c, callerPc, future, condition, iterFut, bodyFut,
                 bodyArgs, calls, onDiscardCalls, depth, proc>>

\* A condition handler without the isFailed branch.
ConditionAnyNoFail ==
  /\ Receives("conditionAny")
  /\ inbox' = Tail(inbox)
  /\ ctx' = Head(inbox).ctx
  /\ LET cond == bodyFut[condition] IN
       CASE cond.state = "READY" /\ cond.value ->
              /\ pc' = "cond_iterate"
              /\ UNCHANGED <<outer, nSettle>>
         [] cond.state = "READY" /\ ~cond.value ->
              /\ outer' = PromiseSet(outer)
              /\ nSettle' = nSettle + 1
              /\ pc' = "idle"
         [] cond.state = "DISCARDED" ->
              /\ outer' = PromiseDiscard(outer)
              /\ nSettle' = nSettle + 1
              /\ pc' = "idle"
         [] OTHER ->
              /\ pc' = "idle"
              /\ UNCHANGED <<outer, nSettle>>
  /\ cleanup' = OuterSettled(Head(inbox).ctx)
  /\ UNCHANGED <<callables, c, callerPc, future, condition, iterFut, bodyFut,
                 bodyArgs, calls, onDiscardCalls, depth, proc>>

\* A condition handler that settles the promise when the condition is
\* ready-false and then goes on to the next iteration all the same.
ConditionAnySetThenIterate ==
  /\ Receives("conditionAny")
  /\ inbox' = Tail(inbox)
  /\ ctx' = Head(inbox).ctx
  /\ LET cond == bodyFut[condition] IN
       CASE cond.state = "READY" /\ cond.value ->
              /\ pc' = "cond_iterate"
              /\ UNCHANGED <<outer, nSettle>>
         [] cond.state = "READY" /\ ~cond.value ->
              /\ outer' = PromiseSet(outer)
              /\ nSettle' = nSettle + 1
              /\ pc' = "cond_iterate"
         [] cond.state = "FAILED" ->
              /\ outer' = PromiseFail(outer, cond.reason)
              /\ nSettle' = nSettle + 1
              /\ pc' = "idle"
         [] cond.state = "DISCARDED" ->
              /\ outer' = PromiseDiscard(outer)
              /\ nSettle' = nSettle + 1
              /\ pc' = "idle"
         [] OTHER ->
              /\ pc' = "idle"
              /\ UNCHANGED <<outer, nSettle>>
  /\ cleanup' = OuterSettled(Head(inbox).ctx)
  /\ UNCHANGED <<callables, c, callerPc, future, condition, iterFut, bodyFut,
                 bodyArgs, calls, onDiscardCalls, depth, proc>>

\* The wake-up handler of loop->condition: examine its terminal state.
ConditionAny ==
  /\ Receives("conditionAny")
  /\ inbox' = Tail(inbox)
  /\ ctx' = Head(inbox).ctx
  /\ LET cond == bodyFut[condition] IN
       CASE cond.state = "READY" /\ cond.value ->
              /\ pc' = "cond_iterate"
              /\ UNCHANGED <<outer, nSettle>>
         [] cond.state = "READY" /\ ~cond.value ->
              /\ outer' = PromiseSet(outer)
              /\ nSettle' = nSettle + 1
              /\ pc' = "idle"
         [] cond.state = "FAILED" ->
              /\ outer' = PromiseFail(outer, cond.reason)
              /\ nSettle' = nSettle + 1
              /\ pc' = "idle"
         [] cond.state = "DISCARDED" ->
              /\ outer' = PromiseDiscard(outer)
              /\ nSettle' = nSettle + 1
              /\ pc' = "idle"
         [] OTHER ->
              /\ pc' = "idle"
              /\ UNCHANGED <<outer, nSettle>>
  /\ cleanup' = OuterSettled(Head(inbox).ctx)
  /\ UNCHANGED <<callables, c, callerPc, future, condition, iterFut, bodyFut,
                 bodyArgs, calls, onDiscardCalls, depth, proc>>

\* loop->future = loop->iterate() inside the condition handler.
ConditionIterate ==
  /\ pc = "cond_iterate"
  /\ CallIterate(ctx)
  /\ pc' = "cond_iterateDiscard"
  /\ UNCHANGED <<callables, c, callerPc, outer, condition, bodyFut, bodyArgs,
                 inbox, ctx, nSettle, depth, proc, cleanup>>

\* A condition handler that assigns the new future and returns without
\* calling run(loop).
ConditionIterateDiscardNoRun ==
  /\ pc = "cond_iterateDiscard"
  /\ DiscardNewFuture
  /\ pc' = "idle"
  /\ depth' = depth
  /\ UNCHANGED <<callables, c, callerPc, outer, future, condition, bodyFut,
                 bodyArgs, inbox, ctx, calls, nSettle, onDiscardCalls, proc,
                 cleanup>>

\* The hasDiscard check on the new future, then run(loop).
ConditionIterateDiscard ==
  /\ pc = "cond_iterateDiscard"
  /\ DiscardNewFuture
  /\ pc' = "run_while"
  /\ depth' = depth + 1
  /\ UNCHANGED <<callables, c, callerPc, outer, future, condition, bodyFut,
                 bodyArgs, inbox, ctx, calls, nSettle, onDiscardCalls, proc,
                 cleanup>>

\* A future handler that reports a failed future as a discard.
FutureAnyFailAsDiscard ==
  /\ Receives("futureAny")
  /\ inbox' = Tail(inbox)
  /\ ctx' = Head(inbox).ctx
  /\ LET fut == iterFut[future] IN
       CASE fut.state = "READY" ->
              /\ pc' = "run_while"
              /\ UNCHANGED <<outer, nSettle>>
         [] fut.state = "FAILED" ->
              /\ outer' = PromiseDiscard(outer)
              /\ nSettle' = nSettle + 1
              /\ pc' = "idle"
         [] fut.state = "DISCARDED" ->
              /\ outer' = PromiseDiscard(outer)
              /\ nSettle' = nSettle + 1
              /\ pc' = "idle"
         [] OTHER ->
              /\ pc' = "idle"
              /\ UNCHANGED <<outer, nSettle>>
  /\ depth' = IF iterFut[future].state = "READY" THEN depth + 1 ELSE depth
  /\ cleanup' = OuterSettled(Head(inbox).ctx)
  /\ UNCHANGED <<callables, c, callerPc, future, condition, iterFut, bodyFut,
                 bodyArgs, calls, onDiscardCalls, proc>>

\* A future handler that treats a discarded future as an error.
FutureAnyDiscardAsFail ==
  /\ Receives("futureAny")
  /\ inbox' = Tail(inbox)
  /\ ctx' = Head(inbox).ctx
  /\ LET fut == iterFut[future] IN
       CASE fut.state = "READY" ->
              /\ pc' = "run_while"
              /\ UNCHANGED <<outer, nSettle>>
         [] fut.state = "FAILED" ->
              /\ outer' = PromiseFail(outer, fut.reason)
              /\ nSettle' = nSettle + 1
              /\ pc' = "idle"
         [] fut.state = "DISCARDED" ->
              /\ outer' = PromiseFail(outer, "discarded")
              /\ nSettle' = nSettle + 1
              /\ pc' = "idle"
         [] OTHER ->
              /\ pc' = "idle"
              /\ UNCHANGED <<outer, nSettle>>
  /\ depth' = IF iterFut[future].state = "READY" THEN depth + 1 ELSE depth
  /\ cleanup' = OuterSettled(Head(inbox).ctx)
  /\ UNCHANGED <<callables, c, callerPc, future, condition, iterFut, bodyFut,
                 bodyArgs, calls, onDiscardCalls, proc>>

\* A future handler that does not re-enter the driver when the future it
\* waited for is ready.
FutureAnyNoRun ==
  /\ Receives("futureAny")
  /\ inbox' = Tail(inbox)
  /\ ctx' = Head(inbox).ctx
  /\ LET fut == iterFut[future] IN
       CASE fut.state = "FAILED" ->
              /\ outer' = PromiseFail(outer, fut.reason)
              /\ nSettle' = nSettle + 1
         [] fut.state = "DISCARDED" ->
              /\ outer' = PromiseDiscard(outer)
              /\ nSettle' = nSettle + 1
         [] OTHER ->
              /\ UNCHANGED <<outer, nSettle>>
  /\ pc' = "idle"
  /\ cleanup' = OuterSettled(Head(inbox).ctx)
  /\ UNCHANGED <<callables, c, callerPc, future, condition, iterFut, bodyFut,
                 bodyArgs, calls, onDiscardCalls, depth, proc>>

\* The wake-up handler of loop->future.
FutureAny ==
  /\ Receives("futureAny")
  /\ inbox' = Tail(inbox)
  /\ ctx' = Head(inbox).ctx
  /\ LET fut == iterFut[future] IN
       CASE fut.state = "READY" ->
              /\ pc' = "run_while"
              /\ UNCHANGED <<outer, nSettle>>
         [] fut.state = "FAILED" ->
              /\ outer' = PromiseFail(outer, fut.reason)
              /\ nSettle' = nSettle + 1
              /\ pc' = "idle"
         [] fut.state = "DISCARDED" ->
              /\ outer' = PromiseDiscard(outer)
              /\ nSettle' = nSettle + 1
              /\ pc' = "idle"
         [] OTHER ->
              /\ pc' = "idle"
              /\ UNCHANGED <<outer, nSettle>>
  /\ depth' = IF iterFut[future].state = "READY" THEN depth + 1 ELSE depth
  /\ cleanup' = OuterSettled(Head(inbox).ctx)
  /\ UNCHANGED <<callables, c, callerPc, future, condition, iterFut, bodyFut,
                 bodyArgs, calls, onDiscardCalls, proc>>

\* A root propagator that discards the future that was in the slot when the
\* callback was subscribed, instead of reading the slot when it fires.
PropagateCaptured ==
  /\ Receives("propagate")
  /\ inbox' = Tail(inbox)
  /\ ctx' = Head(inbox).ctx
  /\ iterFut' = [iterFut EXCEPT ![0] = Discard(@)]
  /\ pc' = "prop_condition"
  /\ UNCHANGED <<callables, c, callerPc, outer, future, condition, bodyFut,
                 bodyArgs, calls, nSettle, onDiscardCalls, depth, proc,
                 cleanup>>

\* The root discard propagator: loop->future.discard().
Propagate ==
  /\ Receives("propagate")
  /\ inbox' = Tail(inbox)
  /\ ctx' = Head(inbox).ctx
  /\ iterFut' = [iterFut EXCEPT ![future] = Discard(@)]
  /\ pc' = "prop_condition"
  /\ UNCHANGED <<callables, c, callerPc, outer, future, condition, bodyFut,
                 bodyArgs, calls, nSettle, onDiscardCalls, depth, proc,
                 cleanup>>

\* A propagator that discards loop->future only.
PropagateConditionSkipped ==
  /\ pc = "prop_condition"
  /\ bodyFut' = bodyFut
  /\ pc' = "idle"
  /\ UNCHANGED <<callables, c, callerPc, outer, future, condition, iterFut,
                 bodyArgs, inbox, ctx, calls, nSettle, onDiscardCalls, depth,
                 proc, cleanup>>

\* The root discard propagator: loop->condition.discard().
PropagateCondition ==
  /\ pc = "prop_condition"
  /\ bodyFut' = [bodyFut EXCEPT ![condition] = Discard(@)]
  /\ pc' = "idle"
  /\ UNCHANGED <<callables, c, callerPc, outer, future, condition, iterFut,
                 bodyArgs, inbox, ctx, calls, nSettle, onDiscardCalls, depth,
                 proc, cleanup>>

----------------------------------------------------------------------------
\* The owners of the per-iteration futures settle them from other threads;
\* settling a future invokes its onAny callbacks.

SettleFuture ==
  \E k \in 1..nIterate :
    /\ iterFut[k].state = "PENDING"
    /\ \E res \in IterateOutcomes(k) :
         iterFut' = [iterFut EXCEPT ![k] =
                       [@ EXCEPT !.state = res.state, !.value = res.value,
                                 !.reason = res.reason, !.onAny = 0]]
    /\ inbox' = inbox \o Callbacks(iterFut[k].onAny, "futureAny", "settler")
    /\ UNCHANGED <<callables, c, callerPc, outer, future, condition, bodyFut,
                   bodyArgs, pc, ctx, calls, nSettle, onDiscardCalls, depth,
                   proc, cleanup>>

SettleCondition ==
  \E k \in 1..nBody :
    /\ bodyFut[k].state = "PENDING"
    /\ \E res \in BodyOutcomes(k) :
         bodyFut' = [bodyFut EXCEPT ![k] =
                       [@ EXCEPT !.state = res.state, !.value = res.value,
                                 !.reason = res.reason, !.onAny = 0]]
    /\ inbox' = inbox \o Callbacks(bodyFut[k].onAny, "conditionAny", "settler")
    /\ UNCHANGED <<callables, c, callerPc, outer, future, condition, iterFut,
                   bodyArgs, pc, ctx, calls, nSettle, onDiscardCalls, depth,
                   proc, cleanup>>

----------------------------------------------------------------------------

Next ==
  \/ LoopDispatch
  \/ LoopOnDiscard
  \/ CallerDiscard
  \/ Bootstrap
  \/ BootstrapDiscard
  \/ RunWhile
  \/ RunBody
  \/ RunBodyDiscard
  \/ RunCondition
  \/ RunIterate
  \/ RunIterateDiscard
  \/ RunSet
  \/ RunOnAnyCondition
  \/ RunOnAnyFuture
  \/ ConditionAny
  \/ ConditionIterate
  \/ ConditionIterateDiscard
  \/ FutureAny
  \/ Propagate
  \/ PropagateCondition
  \/ SettleFuture
  \/ SettleCondition

Spec == Init /\ [][Next]_vars

\* A step of the actor pid: it starts the handler first in its mailbox or
\* continues the handler it is running.
ActorStep ==
  \/ Bootstrap
  \/ BootstrapDiscard
  \/ RunWhile
  \/ RunBody
  \/ RunBodyDiscard
  \/ RunCondition
  \/ RunIterate
  \/ RunIterateDiscard
  \/ RunSet
  \/ RunOnAnyCondition
  \/ RunOnAnyFuture
  \/ ConditionAny
  \/ ConditionIterate
  \/ ConditionIterateDiscard
  \/ FutureAny
  \/ Propagate
  \/ PropagateCondition

\* The loop on an actor that keeps processing its mailbox; nothing is assumed
\* of the caller or of the owners of the per-iteration futures.
SpecFair == Spec /\ WF_vars(ActorStep)

\* The loop in a live environment: loop() runs to its return, the actor keeps
\* processing its mailbox, and the owner of every pending per-iteration future
\* eventually settles it. The callables yield at most MaxIter - 1 ready-true
\* conditions, so some future is eventually not ready-true.
SpecLive ==
  /\ Spec
  /\ WF_vars(LoopDispatch \/ LoopOnDiscard)
  /\ WF_vars(ActorStep)
  /\ WF_vars(SettleFuture)
  /\ WF_vars(SettleCondition)

\* The loop over callables that return settled futures only, on an actor that
\* keeps processing its mailbox: no future is left for another thread to
\* settle.
ActorStepSettled ==
  \/ Bootstrap
  \/ BootstrapDiscard
  \/ RunWhile
  \/ RunBody
  \/ RunBodyDiscard
  \/ RunCondition
  \/ RunIterate
  \/ RunIterateDiscard
  \/ RunSet
  \/ RunOnAnyCondition
  \/ RunOnAnyFuture
  \/ ConditionAny
  \/ FutureAny
  \/ Propagate
  \/ PropagateCondition

NextSettled ==
  \/ LoopDispatch
  \/ LoopOnDiscard
  \/ CallerDiscard
  \/ ActorStepSettled

SpecSettled == InitSettled /\ [][NextSettled]_vars /\ WF_vars(ActorStepSettled)

\* Scenario S1: every per-iteration future is ready when it is returned.
NextS1 ==
  \/ LoopDispatch
  \/ LoopOnDiscard
  \/ CallerDiscard
  \/ Bootstrap
  \/ BootstrapDiscard
  \/ RunWhile
  \/ RunBody
  \/ RunBodyDiscard
  \/ RunCondition
  \/ RunIterate
  \/ RunIterateDiscard
  \/ RunSet
  \/ Propagate
  \/ PropagateCondition

SpecS1 == InitS1 /\ [][NextS1]_vars

\* Scenario S2: every per-iteration future is returned pending and is set by
\* another actor, at any time after the callable has returned; the caller
\* requests no discard.
NextS2 ==
  \/ LoopDispatch
  \/ LoopOnDiscard
  \/ Bootstrap
  \/ BootstrapDiscard
  \/ RunWhile
  \/ RunBody
  \/ RunBodyDiscard
  \/ RunCondition
  \/ RunIterate
  \/ RunIterateDiscard
  \/ RunSet
  \/ RunOnAnyCondition
  \/ RunOnAnyFuture
  \/ ConditionAny
  \/ ConditionIterate
  \/ ConditionIterateDiscard
  \/ FutureAny
  \/ SettleFuture
  \/ SettleCondition

SpecS2 == InitS2 /\ [][NextS2]_vars

\* loop(iterate, body): the loop on a spawned actor, and its cleanup.
NextWrapper ==
  \/ Next
  \/ WrapperOnAny
  \/ CleanupTerminate
  \/ ProcessTerminate
  \/ CleanupWait
  \/ CleanupDelete

SpecWrapper == InitWrapper /\ [][NextWrapper]_vars

\* The actor has run every step posted to it.
Quiescent == callerPc = "returned" /\ pc = "idle" /\ inbox = <<>>

TypeOK ==
  /\ callables \in {"any", "S1", "S2", "settled"}
  /\ outer.state \in {"PENDING", "READY", "FAILED", "DISCARDED"}
  /\ future \in 0..nIterate
  /\ condition \in 0..nBody
  /\ nBody <= MaxIter \/ callables \in {"S1", "S2"}

----------------------------------------------------------------------------
\* Properties.

\* C1: the outer promise is settled at most once: the driver calls
\* promise.set/fail/discard at most once over a run, and once the promise has
\* left PENDING its state and failure reason never change again.
C1_SettledAtMostOnce ==
  /\ [](nSettle <= 1)
  /\ [][outer.state # "PENDING" =>
          (outer'.state = outer.state /\ outer'.reason = outer.reason)]_vars

\* A discard was requested, the promise was then settled by the driver and
\* the actor has drained its mailbox.
C1_Witness ==
  /\ Quiescent
  /\ outer.discard
  /\ outer.state \in {"READY", "FAILED", "DISCARDED"}
  /\ nSettle = 1

\* Every iterate future 1..n is ready, the conditions 1..n-1 are ready-true
\* and condition n is ready-false.
TerminationCase(n) ==
  /\ n <= nIterate /\ n <= nBody
  /\ \A k \in 1..n : iterFut[k].state = "READY"
  /\ \A k \in 1..(n - 1) : bodyFut[k].state = "READY" /\ bodyFut[k].value
  /\ bodyFut[n].state = "READY" /\ ~bodyFut[n].value

\* C2: termination law: when the first n-1 conditions are ready-true and the
\* n-th is ready-false (all iterate futures ready), iterate and body have been
\* invoked exactly n times each and are never invoked again, the returned
\* future is ready once the actor has drained its mailbox and is never failed
\* or discarded; and the returned future is ready only in that case.
C2_TerminationLaw ==
  /\ \A n \in 1..nBody :
       TerminationCase(n) =>
         /\ nIterate = n /\ nBody = n
         /\ outer.state \in {"PENDING", "READY"}
         /\ Quiescent => outer.state = "READY"
  /\ outer.state = "READY" => nBody >= 1 /\ TerminationCase(nBody)

\* The loop became ready after three iterations whose third condition was
\* settled asynchronously, with no discard requested.
C2_Witness ==
  /\ outer.state = "READY"
  /\ ~outer.discard
  /\ nBody = 3 /\ nIterate = 3
  /\ bodyFut[3].subs = 1
  /\ TerminationCase(3)

\* C3 as stated (scenario S1): the outer future is ready with c = 5 after 5
\* iterate calls and 5 body calls.
C3_S1AsStated ==
  /\ Quiescent => outer.state = "READY"
  /\ outer.state = "READY" => c = 5 /\ nIterate = 5 /\ nBody = 5

\* C3 (amended): in scenario S1 the outer future is ready once the actor has
\* drained its mailbox, and it is ready with c = 6 after 6 iterate calls and 6
\* body calls: the values 0..4 satisfy v < 5, the sixth value 5 does not.
C3_S1Counting ==
  /\ Quiescent => outer.state = "READY"
  /\ outer.state = "READY" =>
       /\ c = 6 /\ nIterate = 6 /\ nBody = 6
       /\ bodyArgs = <<0, 1, 2, 3, 4, 5>>

\* Scenario S1 has run to completion.
C3_Witness == callables = "S1" /\ Quiescent /\ outer.state = "READY" /\ c = 6

\* C4: if the k-th iterate future is failed with reason r, iterate has been
\* invoked exactly k times and body exactly k-1 times and neither is invoked
\* again, the returned future is never ready or discarded, it fails with
\* exactly r, and it has failed once the actor has drained its mailbox.
C4_IterateFailure ==
  \A k \in 1..nIterate :
    iterFut[k].state = "FAILED" =>
      /\ nIterate = k /\ nBody = k - 1
      /\ outer.state \in {"PENDING", "FAILED"}
      /\ outer.state = "FAILED" => outer.reason = iterFut[k].reason
      /\ Quiescent => outer.state = "FAILED"

\* Scenario S4: the second iterate future failed with "gone".
C4_Witness ==
  /\ nIterate = 2 /\ nBody = 1
  /\ iterFut[2].state = "FAILED" /\ iterFut[2].reason = "gone"
  /\ outer.state = "FAILED" /\ outer.reason = "gone"

\* C5: if the condition of the k-th body call is failed with reason r,
\* iterate and body have been invoked exactly k times each and neither is
\* invoked again, the returned future is never ready or discarded, it fails
\* with exactly r, and it has failed once the actor has drained its mailbox.
C5_BodyFailure ==
  \A k \in 1..nBody :
    bodyFut[k].state = "FAILED" =>
      /\ nIterate = k /\ nBody = k
      /\ outer.state \in {"PENDING", "FAILED"}
      /\ outer.state = "FAILED" => outer.reason = bodyFut[k].reason
      /\ Quiescent => outer.state = "FAILED"

\* Scenario S3: the condition of the third body call failed with "boom".
C5_Witness ==
  /\ nIterate = 3 /\ nBody = 3
  /\ bodyFut[3].state = "FAILED" /\ bodyFut[3].reason = "boom"
  /\ outer.state = "FAILED" /\ outer.reason = "boom"

\* The future had a discard requested on it while pending and was then
\* discarded by its owner.
Honored(f) == f.state = "DISCARDED" /\ f.discard

\* C6: once a discard is requested on the returned future and the actor has
\* drained its mailbox, every still pending per-iteration future carries the
\* discard request; and if the k-th iterate future (k-th condition) honors
\* the request, no further iterate or body call occurs, the returned future
\* is never ready or failed, and it is discarded once the actor has drained
\* its mailbox.
C6_DiscardPropagation ==
  /\ (Quiescent /\ outer.discard) =>
       /\ \A k \in 1..nIterate : iterFut[k].state = "PENDING" => iterFut[k].discard
       /\ \A k \in 1..nBody : bodyFut[k].state = "PENDING" => bodyFut[k].discard
  /\ \A k \in 1..nIterate :
       Honored(iterFut[k]) =>
         /\ nIterate = k /\ nBody = k - 1
         /\ outer.state \in {"PENDING", "DISCARDED"}
         /\ Quiescent => outer.state = "DISCARDED"
  /\ \A k \in 1..nBody :
       Honored(bodyFut[k]) =>
         /\ nIterate = k /\ nBody = k
         /\ outer.state \in {"PENDING", "DISCARDED"}
         /\ Quiescent => outer.state = "DISCARDED"

\* Scenario S5: the discard request reached the pending condition of body
\* call 2, the condition honored it and the returned future is
\* discarded.
C6_Witness ==
  /\ Quiescent
  /\ outer.discard /\ outer.state = "DISCARDED"
  /\ nIterate = 2 /\ nBody = 2
  /\ Honored(bodyFut[2]) /\ bodyFut[2].subs = 1

\* C7: whenever a per-iteration future is discarded, requested or not, the
\* returned future is never ready or failed and is discarded once the actor
\* has drained its mailbox.
C7_DiscardedIsDiscard ==
  /\ \A k \in 1..nIterate :
       iterFut[k].state = "DISCARDED" =>
         /\ outer.state \in {"PENDING", "DISCARDED"}
         /\ Quiescent => outer.state = "DISCARDED"
  /\ \A k \in 1..nBody :
       bodyFut[k].state = "DISCARDED" =>
         /\ outer.state \in {"PENDING", "DISCARDED"}
         /\ Quiescent => outer.state = "DISCARDED"

\* The second iterate future was discarded with no discard ever requested on
\* the returned future.
C7_Witness ==
  /\ Quiescent
  /\ ~outer.discard /\ outer.state = "DISCARDED"
  /\ nIterate = 2 /\ iterFut[2].state = "DISCARDED" /\ ~iterFut[2].discard

\* C8: every invocation of iterate and of body runs in the context of pid.
C8_ExecutionContext ==
  /\ \A i \in 1..Len(calls) : calls[i].ctx = "pid"
  /\ pc # "idle" => ctx = "pid"

\* iterate and body were invoked after wake-ups caused by futures settled
\* from another thread, and a discard was requested by the caller.
C8_Witness ==
  /\ nIterate = 3 /\ nBody = 3
  /\ iterFut[2].subs = 1 /\ bodyFut[2].subs = 1
  /\ outer.discard

\* C9: the invocations alternate iterate, body, iterate, body, ...; the number
\* of iterate calls exceeds the number of body calls by 0 or 1; body number k
\* was invoked with the value of the ready iterate future number k; iterate
\* number k+1 was invoked only with condition number k ready-true.
C9_StrictAlternation ==
  /\ \A i \in 1..Len(calls) :
       calls[i].fn = IF i % 2 = 1 THEN "iterate" ELSE "body"
  /\ Len(calls) = nIterate + nBody
  /\ nIterate - nBody \in {0, 1}
  /\ Len(bodyArgs) = nBody
  /\ \A k \in 1..nBody :
       iterFut[k].state = "READY" /\ bodyArgs[k] = iterFut[k].value
  /\ \A k \in 2..nIterate :
       bodyFut[k - 1].state = "READY" /\ bodyFut[k - 1].value

\* Three iterations, the last body call outstanding.
C9_Witness ==
  /\ nIterate = 3 /\ nBody = 3
  /\ bodyArgs = <<1, 2, 3>>
  /\ bodyFut[3].state = "PENDING"

\* C10: the loop subscribes exactly one onDiscard callback to the returned
\* future, in the entry point, and none in any iteration: the number of
\* subscriptions is 1 once loop() has returned, whatever the number of
\* iterations, and at most one callback is live.
C10_OneOnDiscard ==
  /\ onDiscardCalls = IF callerPc = "returned" THEN 1 ELSE 0
  /\ outer.onDiscard <= 1

\* Three iterate calls have been made and the single callback is live.
C10_Witness ==
  /\ nIterate = 3
  /\ onDiscardCalls = 1
  /\ outer.state = "PENDING" /\ outer.onDiscard = 1

\* C11: the nesting depth of active run invocations never exceeds 1, whatever
\* the number of iterations drained synchronously: run is active exactly
\* while the actor is inside the drain, and never inside itself.
C11_StackDepth ==
  /\ depth \in {0, 1}
  /\ depth = 1 <=> pc \in {"run_while", "run_body", "run_bodyDiscard",
                           "run_condition", "run_iterate", "run_iterateDiscard",
                           "run_set", "run_onAnyCondition", "run_onAnyFuture"}

\* The third iteration of a drain in which every future was ready when the
\* driver examined it: one run invocation is active.
C11_Witness ==
  /\ nIterate = 3 /\ nBody = 2
  /\ \A k \in 1..3 : iterFut[k].state = "READY" /\ iterFut[k].subs = 0
  /\ \A k \in 1..2 : bodyFut[k].subs = 0
  /\ pc = "run_body"
  /\ depth = 1

\* C12: the cleanup of loop(iterate, body) is posted at most once and never
\* while the returned future is pending; it has been posted once the wrapper
\* has returned and the future is settled, whatever the terminal state; the
\* actor is terminated only by the cleanup and deleted exactly when the
\* cleanup has run terminate, wait and delete to the end.
C12_WrapperCleanup ==
  /\ cleanup.pc # "none" => outer.state # "PENDING"
  /\ proc # "spawned" => outer.state # "PENDING"
  /\ cleanup.runs <= 1
  /\ (callerPc = "returned" /\ outer.state # "PENDING") => cleanup.runs = 1
  /\ cleanup.pc \in {"none", "posted"} => proc = "spawned"
  /\ cleanup.pc = "delete" => proc = "terminated"
  /\ cleanup.pc = "done" <=> proc = "deleted"

\* The loop was discarded and its actor has been terminated, waited for and
\* deleted by the single cleanup.
C12_Witness ==
  /\ outer.state = "DISCARDED"
  /\ cleanup.runs = 1 /\ cleanup.pc = "done"
  /\ proc = "deleted"

\* C13: the cleanup never runs in the context of the spawned actor, also
\* when the callback is invoked by that actor settling the loop; so while the
\* cleanup is in wait(process) the terminate event is first in the actor's
\* mailbox and the actor can handle it as soon as it is between handlers.
C13_NoSelfJoin ==
  /\ cleanup.pc # "none" => cleanup.ctx # "pid"
  /\ (cleanup.pc = "wait" /\ proc = "spawned") =>
       /\ inbox # <<>> /\ Head(inbox).h = "terminate"
       /\ pc = "idle" => ENABLED ProcessTerminate

\* The loop was settled by a step of the spawned actor, which invoked the
\* cleanup callback; the cleanup is waiting for the actor.
C13_Witness ==
  /\ cleanup.invoker = "pid"
  /\ cleanup.pc = "wait"
  /\ proc = "spawned"

\* A step of the bootstrap, of the driver, of a wake-up handler or of the root
\* propagator: the steps that read or write loop->future and loop->condition.
SlotAccess ==
  \/ pc' # pc
  \/ Len(inbox') < Len(inbox) /\ proc' = proc
  \/ future' # future
  \/ condition' # condition

\* C14: every step that reads or writes the slots future and condition is a
\* step of a handler running on pid, one handler at a time: a handler starts
\* only when no other handler is in progress, and the caller takes no part in
\* such a step; every callback of the
\* loop waiting in a mailbox waits in the mailbox of pid.
C14_SerializedSlots ==
  [][/\ SlotAccess =>
          /\ ctx' = "pid"
          /\ callerPc' = callerPc /\ outer'.discard = outer.discard
          /\ Len(inbox') < Len(inbox) => pc = "idle"
     /\ \A i \in 1..Len(inbox') : inbox'[i].ctx = "pid"]_vars

\* The driver has reassigned loop->future and not yet made its discard check
\* while the root propagator, fired by the caller, waits in the mailbox of pid.
C14_Witness ==
  /\ pc = "run_iterateDiscard"
  /\ ctx = "pid"
  /\ nIterate = 2 /\ future = 2
  /\ inbox # <<>> /\ Head(inbox).h = "propagate"

\* C15: a step taken once the outer promise is settled invokes neither iterate
\* nor body, leaves the slots future and condition as they are and subscribes
\* no onAny callback; the step that settles the promise ends its handler, so
\* afterwards pid runs at most the root propagator.
C15_NoMutationAfterSettlement ==
  [][/\ outer.state # "PENDING" =>
          /\ calls' = calls /\ bodyArgs' = bodyArgs /\ c' = c
          /\ DOMAIN iterFut' = DOMAIN iterFut /\ DOMAIN bodyFut' = DOMAIN bodyFut
          /\ future' = future /\ condition' = condition
          /\ \A k \in DOMAIN iterFut :
               iterFut'[k].subs = iterFut[k].subs /\ iterFut'[k].onAny <= iterFut[k].onAny
          /\ \A k \in DOMAIN bodyFut :
               bodyFut'[k].subs = bodyFut[k].subs /\ bodyFut'[k].onAny <= bodyFut[k].onAny
          /\ outer' = outer
     /\ outer'.state # "PENDING" => pc' \in {"idle", "prop_condition"}]_vars

\* The loop has failed on its second iterate future, and the root propagator
\* of a discard requested just before runs on pid after the settlement.
C15_Witness ==
  /\ outer.state = "FAILED" /\ outer.discard
  /\ nIterate = 2 /\ nBody = 1
  /\ pc = "prop_condition"

RECURSIVE SumSubs(_, _)
SumSubs(f, n) == IF n = 0 THEN 0 ELSE f[n].subs + SumSubs(f, n - 1)

\* The number of times the driver has suspended: the onAny subscriptions it
\* has made on per-iteration futures.
Suspensions == SumSubs(iterFut, nIterate) + SumSubs(bodyFut, nBody)

\* The other actors have set every future handed out so far.
AllSet ==
  /\ \A k \in 1..nIterate : iterFut[k].state # "PENDING"
  /\ \A k \in 1..nBody : bodyFut[k].state # "PENDING"

\* C16 as stated (scenario S2): the asynchronous counting loop ends in the
\* terminal state of the synchronous one, after as many iterate and body
\* calls, and the driver has then suspended at least 5 times.
C16_S2AsStated ==
  /\ (Quiescent /\ AllSet) => outer.state = "READY"
  /\ outer.state = "READY" =>
       /\ c = 6 /\ nIterate = 6 /\ nBody = 6
       /\ Suspensions >= 5

\* C16 (amended): in scenario S2 the outer future is never failed or
\* discarded and is ready once every future handed out is set and the actor
\* has drained its mailbox, with c = 6
\* after 6 iterate calls and 6 body calls on the values 0..5, as in scenario
\* S1 and however the settlements interleave with the driver; the driver
\* suspends at most once per per-iteration future, hence at most 12 times.
C16_S2Equivalence ==
  /\ outer.state \in {"PENDING", "READY"}
  /\ (Quiescent /\ AllSet) => outer.state = "READY"
  /\ outer.state = "READY" =>
       /\ c = 6 /\ nIterate = 6 /\ nBody = 6
       /\ bodyArgs = <<0, 1, 2, 3, 4, 5>>
  /\ \A k \in 1..nIterate : iterFut[k].subs <= 1
  /\ \A k \in 1..nBody : bodyFut[k].subs <= 1
  /\ Suspensions <= nIterate + nBody
  /\ Suspensions <= 12

\* Scenario S2 has run to completion with every future still pending when the
\* driver examined it: the driver suspended 12 times.
C16_Witness ==
  /\ callables = "S2" /\ Quiescent
  /\ outer.state = "READY" /\ c = 6
  /\ Suspensions = 12

\* Whether a discard was recorded on the returned future when call number k
\* of iterate, or of body, constructed its future.
IterateUnderDiscard(k) == calls[2 * k - 1].hasDiscard
BodyUnderDiscard(k) == calls[2 * k].hasDiscard

\* C17: a per-iteration future constructed while a discard is recorded on the
\* returned future, and still pending, has discard requested on it as soon as
\* the step that constructed it has made its hasDiscard check, hence before
\* the driver examines it; when the discard was recorded before the bootstrap
\* ran and the first iterate future ends up discarded, body never runs,
\* iterate is not called again and the returned future is discarded.
C17_ConstructionTimeDiscard ==
  /\ \A k \in 1..nIterate :
       (/\ IterateUnderDiscard(k)
        /\ iterFut[k].state = "PENDING"
        /\ ~(/\ future = k
             /\ pc \in {"boot_discard", "run_iterateDiscard", "cond_iterateDiscard"}))
       => iterFut[k].discard
  /\ \A k \in 1..nBody :
       (/\ BodyUnderDiscard(k)
        /\ bodyFut[k].state = "PENDING"
        /\ ~(condition = k /\ pc = "run_bodyDiscard"))
       => bodyFut[k].discard
  /\ (/\ nIterate >= 1
      /\ IterateUnderDiscard(1)
      /\ iterFut[1].state = "DISCARDED") =>
       /\ nIterate = 1 /\ nBody = 0
       /\ outer.state \in {"PENDING", "DISCARDED"}
       /\ Quiescent => outer.state = "DISCARDED"

\* Scenario S6: the discard was recorded before the bootstrap ran; the driver
\* is about to examine the first iterate future, pending and carrying the
\* request, while the root propagator has not run yet.
C17_Witness ==
  /\ nIterate = 1 /\ IterateUnderDiscard(1)
  /\ pc = "run_while"
  /\ iterFut[1].state = "PENDING" /\ iterFut[1].discard
  /\ inbox # <<>> /\ Head(inbox).h = "propagate"

\* Every pending per-iteration future carries a discard request.
Delivered ==
  /\ \A k \in 1..nIterate : iterFut[k].state = "PENDING" => iterFut[k].discard
  /\ \A k \in 1..nBody : bodyFut[k].state = "PENDING" => bodyFut[k].discard

\* C18: a per-iteration future is pending only while it is the current future
\* or condition slot; once a discard is recorded on the returned future and
\* the actor keeps taking steps, every state is followed by a state in which
\* every per-iteration future still pending carries the request, whether it
\* was pending at the time of the request or was created after it; and no
\* onDiscard callback other than the root one is involved.
C18_NoLostDiscard ==
  /\ [](\A k \in 1..nIterate : iterFut[k].state = "PENDING" => future = k)
  /\ [](\A k \in 1..nBody : bodyFut[k].state = "PENDING" => condition = k)
  /\ [](onDiscardCalls <= 1)
  /\ outer.discard ~> Delivered

\* The second iterate future was created before the discard was requested
\* and is still pending: the request reached it through the root propagator.
C18_Witness ==
  /\ outer.discard
  /\ nIterate = 2 /\ ~IterateUnderDiscard(2)
  /\ iterFut[2].state = "PENDING" /\ iterFut[2].discard

\* Every per-iteration future the driver has observed so far was ready when
\* observed: the driver has never taken the branch that subscribes.
DrainedSoFar ==
  /\ Suspensions = 0
  /\ pc \notin {"run_onAnyCondition", "run_onAnyFuture"}

\* C19: a driver step that observes the current future, or the current
\* condition, ready goes on within the same handler, subscribing no onAny
\* callback and posting nothing to pid; as long as every future was ready
\* when observed, no callback is subscribed on any future and the mailbox of
\* pid holds nothing but the root propagator, and from the bootstrap's iterate
\* call until the outer promise is settled the actor stays inside the one
\* handler started by the bootstrap, at run() depth at most 1.
C19_SynchronousDrain ==
  /\ [][/\ (pc = "run_while" /\ pc' # pc /\ iterFut[future].state = "READY") =>
             /\ pc' = "run_body"
             /\ inbox' = inbox /\ iterFut' = iterFut /\ bodyFut' = bodyFut
        /\ (pc = "run_condition" /\ pc' # pc /\ bodyFut[condition].state = "READY") =>
             /\ pc' \in {"run_iterate", "run_set"}
             /\ inbox' = inbox /\ iterFut' = iterFut /\ bodyFut' = bodyFut]_vars
  /\ [](DrainedSoFar =>
          /\ \A i \in 1..Len(inbox) : inbox[i].h \in {"bootstrap", "propagate"}
          /\ \A k \in 1..nIterate : iterFut[k].onAny = 0
          /\ \A k \in 1..nBody : bodyFut[k].onAny = 0
          /\ (nIterate >= 1 /\ outer.state = "PENDING") =>
               /\ pc \notin {"idle", "prop_condition"}
               /\ depth <= 1
          /\ outer.state \in {"PENDING", "READY"})

\* Three iterations, every future ready when observed, the last condition
\* ready-false: the loop has settled without a single subscription.
C19_Witness ==
  /\ Suspensions = 0
  /\ nIterate = 3 /\ nBody = 3
  /\ outer.state = "READY"
  /\ Quiescent

RECURSIVE SumOnAny(_, _)
SumOnAny(f, n) == IF n = 0 THEN 0 ELSE f[n].onAny + SumOnAny(f, n - 1)

\* The wake-ups of the loop that are outstanding: the onAny callbacks held by
\* pending futures and those already invoked and waiting in the mailbox.
Outstanding ==
  SumOnAny(iterFut, nIterate) + SumOnAny(bodyFut, nBody)
  + Cardinality({i \in 1..Len(inbox) : inbox[i].h \in {"futureAny", "conditionAny"}})

\* A step that ends a handler of the driver: the bootstrap, or a wake-up
\* handler, or the run() either of them entered.
EndsDriverStep ==
  /\ pc' = "idle"
  /\ \/ pc \notin {"idle", "prop_condition"}
     \/ /\ pc = "idle" /\ inbox # <<>> /\ inbox' = Tail(inbox)
        /\ Head(inbox).h \in {"bootstrap", "futureAny", "conditionAny"}

\* C20: a handler of the driver subscribes nothing before its last step, and
\* its last step either settles the outer promise and subscribes nothing, or
\* leaves it pending and subscribes exactly one onAny callback, to the current
\* future or to the current condition; no future is ever subscribed twice, a
\* callback is held only by the future in the slot it was subscribed through,
\* and at most one wake-up of the loop is outstanding at any time: exactly
\* one while the loop is pending between handlers of the driver, none while
\* such a handler runs or once the promise is settled.
C20_SingleSuspension ==
  /\ [][/\ (pc' # "idle") => Suspensions' = Suspensions
        /\ EndsDriverStep =>
             \/ /\ outer'.state # "PENDING"
                /\ Suspensions' = Suspensions
             \/ /\ outer'.state = "PENDING"
                /\ Suspensions' = Suspensions + 1
                /\ \/ iterFut'[future].subs = iterFut[future].subs + 1
                   \/ bodyFut'[condition].subs = bodyFut[condition].subs + 1]_vars
  /\ [](/\ \A k \in 1..nIterate :
             /\ iterFut[k].subs <= 1 /\ iterFut[k].onAny <= 1
             /\ iterFut[k].onAny = 1 => future = k
        /\ \A k \in 1..nBody :
             /\ bodyFut[k].subs <= 1 /\ bodyFut[k].onAny <= 1
             /\ bodyFut[k].onAny = 1 => condition = k
        /\ Outstanding <= 1
        /\ outer.state # "PENDING" => Outstanding = 0
        /\ (outer.state = "PENDING" /\ nIterate >= 1) =>
             (Outstanding = 1 <=> pc \in {"idle", "prop_condition"}))

\* The driver has suspended on the second condition after having suspended
\* on the first iterate future: one callback is outstanding, on the condition.
C20_Witness ==
  /\ pc = "idle" /\ outer.state = "PENDING"
  /\ nBody = 2 /\ condition = 2
  /\ bodyFut[2].onAny = 1 /\ iterFut[1].subs = 1
  /\ Outstanding = 1

\* A future that is failed or discarded.
NonReady(f) == f.state \in {"FAILED", "DISCARDED"}

\* The outer future is in the terminal state of f, with its reason if failed.
SettledAs(f) ==
  /\ outer.state = f.state
  /\ f.state = "FAILED" => outer.reason = f.reason

\* C21: when the driver subscribes to a future or a condition that is already
\* failed or discarded, the callback is posted to pid in that very step and the
\* outer promise is left for a later step to settle; such a future is the last
\* one iterate or body has produced, the outer future is never settled
\* otherwise than failed with its reason or discarded respectively, and on an
\* actor that keeps processing its mailbox it is eventually settled.
C21_TerminalResults ==
  /\ [][/\ (pc = "run_onAnyFuture" /\ pc' # pc /\ NonReady(iterFut[future])) =>
             /\ inbox' = Append(inbox, [h |-> "futureAny", ctx |-> "pid"])
             /\ pc' = "idle" /\ outer' = outer /\ calls' = calls
        /\ (pc = "run_onAnyCondition" /\ pc' # pc /\ NonReady(bodyFut[condition])) =>
             /\ inbox' = Append(inbox, [h |-> "conditionAny", ctx |-> "pid"])
             /\ pc' = "idle" /\ outer' = outer /\ calls' = calls]_vars
  /\ [](\A k \in 1..nIterate :
          NonReady(iterFut[k]) =>
            /\ nIterate = k /\ nBody = k - 1
            /\ outer.state = "PENDING" \/ SettledAs(iterFut[k]))
  /\ [](\A k \in 1..nBody :
          NonReady(bodyFut[k]) =>
            /\ nIterate = k /\ nBody = k
            /\ outer.state = "PENDING" \/ SettledAs(bodyFut[k]))
  /\ ((nIterate >= 1 /\ NonReady(iterFut[nIterate])) \/ (nBody >= 1 /\ NonReady(bodyFut[nBody])))
       ~> (outer.state # "PENDING")

\* The second body call returned a condition that was already failed; the
\* driver subscribed to it and the handler has failed the loop with its reason.
C21_Witness ==
  /\ callables = "settled"
  /\ nIterate = 2 /\ nBody = 2
  /\ bodyFut[2].state = "FAILED" /\ bodyFut[2].subs = 1
  /\ outer.state = "FAILED" /\ outer.reason = bodyFut[2].reason
  /\ Quiescent

\* No per-iteration future handed out so far is failed or discarded: the
\* callables have not honored a discard, nor failed.
NoneHonored ==
  /\ \A k \in 1..nIterate : ~NonReady(iterFut[k])
  /\ \A k \in 1..nBody : ~NonReady(bodyFut[k])

\* C22: the step that records a discard on the returned future, and the steps
\* of the root propagator, leave the outer promise pending and invoke nothing
\* themselves; the outer future is discarded only when some per-iteration
\* future is discarded; and with a discard recorded, if no per-iteration future
\* is failed or discarded, every future handed out is set and the actor has
\* drained its mailbox, then the loop has not stopped short: the outer future
\* is ready, as many body calls as iterate calls were made, the last condition
\* is ready-false and every earlier one ready-true.
C22_DiscardAloneSettlesNothing ==
  /\ [][/\ (outer'.discard /\ ~outer.discard) =>
             outer'.state = "PENDING" /\ calls' = calls /\ pc' = pc
        /\ (pc = "prop_condition" \/ pc' = "prop_condition") =>
             outer'.state = outer.state /\ calls' = calls]_vars
  /\ [](outer.state = "DISCARDED" =>
          \/ \E k \in 1..nIterate : iterFut[k].state = "DISCARDED"
          \/ \E k \in 1..nBody : bodyFut[k].state = "DISCARDED")
  /\ []((outer.discard /\ NoneHonored /\ AllSet /\ Quiescent) =>
          /\ outer.state = "READY"
          /\ nIterate = nBody /\ nBody >= 1
          /\ ~bodyFut[nBody].value
          /\ \A k \in 1..(nBody - 1) : bodyFut[k].value)

\* The discard was recorded before the second iterate call; iterate and body
\* went on being invoked, their futures carried the request unheeded, and the
\* loop ended ready after the third condition, ready-false.
C22_Witness ==
  /\ outer.discard /\ outer.state = "READY"
  /\ nIterate = 3 /\ nBody = 3
  /\ IterateUnderDiscard(2) /\ BodyUnderDiscard(3)
  /\ iterFut[3].discard /\ bodyFut[3].discard
  /\ Quiescent

\* C23: on a live actor, with every per-iteration future eventually settled
\* and not every condition ready-true, the outer promise is eventually settled
\* and no wake-up of the loop is left behind, whatever the interleaving of the
\* settlements, of the discard request and of the driver's steps.
C23_EventualSettlement ==
  <>[](outer.state # "PENDING" /\ Outstanding = 0)

\* The loop has settled after the driver had suspended on the second iterate
\* future and on the second condition and had been woken up for both.
C23_Witness ==
  /\ outer.state = "READY"
  /\ nIterate = 3 /\ nBody = 3
  /\ iterFut[2].subs = 1 /\ bodyFut[2].subs = 1
  /\ Outstanding = 0

====
